---- MODULE Spec2Model ----
(***************************************************************************)
(* Model of qutip/qip/device/modelprocessor.py: the GateDecomposer that    *)
(* turns a gate sequence into a (tlist, coeffs) pulse timeline, and the    *)
(* ModelProcessor that normalises parameters, dispatches run_state and     *)
(* rasterises the stored timeline.                                         *)
(*                                                                         *)
(* Numbers.  Times are integers counted in ticks of half a raster step     *)
(* (0.005), so dt = 0.01 is 2 ticks and the duration 1.0 is 100 * dt.      *)
(* Coefficients are integers.  A value scaled by 2*pi is an integer        *)
(* counted in units of pi.  Floating-point rounding is not modelled.       *)
(*                                                                         *)
(* Python values.  None is the empty tuple and a present value x is the    *)
(* one-element tuple <<x>>.  A raised exception is a record with its type  *)
(* and message; the message "Unsupported gate %s" % name is the pair       *)
(* <<"Unsupported gate", name>>.                                           *)
(***************************************************************************)
EXTENDS Integers, Sequences, FiniteSets, TLC

VARIABLES
    gate_decomps,   \* GateDecomposer.gate_decomps: gate name -> handler
    num_ops,        \* GateDecomposer.num_ops, also len(ModelProcessor.ctrls)
    dt_list,        \* GateDecomposer.dt_list accumulator
    coeff_list,     \* GateDecomposer.coeff_list accumulator
    tlist,          \* Processor.tlist: stored breakpoints, None until a load
    coeffs,         \* Processor.coeffs: stored coefficient matrix
    _paras,         \* ModelProcessor._paras
    call            \* the last call made: operation, arguments, outcome; for
                    \* decompose also whether it came after a failed call
                    \* that left fragments in the accumulators

vars == <<gate_decomps, num_ops, dt_list, coeff_list, tlist, coeffs, _paras, call>>

(***************************************************************************)
(* Bounds                                                                  *)
(***************************************************************************)
MaxGates == 3       \* longest gate sequence handed to decompose
MaxOps == 2         \* largest number of control Hamiltonians
MaxCircuit == 2     \* longest circuit handed to run_state
MaxN == 3           \* largest N and longest iterable handed to _para_list

(***************************************************************************)
(* Python values                                                           *)
(***************************************************************************)
None == <<>>
Some(x) == <<x>>

ValueError(msg) == [type |-> "ValueError", msg |-> msg]
TypeError(msg) == [type |-> "TypeError", msg |-> msg]
NotImplementedError(msg) == [type |-> "NotImplementedError", msg |-> msg]

BoundedSeq(S, n) == UNION {[1..k -> S] : k \in 0..n}

(***************************************************************************)
(* Time base                                                               *)
(***************************************************************************)
dt == 2                 \* the raster step 0.01, in ticks of 0.005
One == 100 * dt         \* the duration 1.0, in ticks

(***************************************************************************)
(* Gate handlers.  A handler appends (duration, coefficient row) entries   *)
(* to dt_list and coeff_list; it is modelled by the entries it appends.    *)
(***************************************************************************)
HandlerNames == {"X", "Z", "ISWAP", "GLOBALPHASE"}
DecomposeNames == {"X", "ISWAP", "GLOBALPHASE", "CNOT"}  \* gates given to decompose
CircuitNames == {"Z", "ISWAP", "CNOT"}                   \* gates of run_state circuits

\* one entry: duration d, coefficient v on control c (1-based), 0 elsewhere
Frag(n, d, c, v) == [dt |-> d, row |-> [m \in 1..n |-> IF m = c THEN v ELSE 0]]

Handlers(n) ==
    [name \in HandlerNames |->
        CASE name = "X" -> <<Frag(n, One, 1, 3)>>
          [] name = "Z" -> <<Frag(n, One, 1, 5)>>
          [] name = "ISWAP" -> <<Frag(n, dt + 1, n, 7), Frag(n, 1, 1, 2)>>
          [] name = "GLOBALPHASE" -> <<>>]

\* the registries of the devices considered: each supports "Z" and
\* "GLOBALPHASE", and any of the other handlers
AlwaysRegistered == {"Z", "GLOBALPHASE"}

Registries(n) ==
    {[name \in D \cup AlwaysRegistered |-> Handlers(n)[name]] :
        D \in SUBSET (HandlerNames \ AlwaysRegistered)}

(***************************************************************************)
(* numpy helpers used by decompose                                         *)
(***************************************************************************)
\* np.vstack(rows): fails on an empty list and on rows of unequal length
vstack(rows) ==
    IF rows = <<>>
    THEN [raised |-> Some(ValueError(<<"need at least one array to concatenate">>)),
          value |-> <<>>]
    ELSE IF \E i \in 1..Len(rows) : Len(rows[i]) # Len(rows[1])
    THEN [raised |-> Some(ValueError(<<"all the input array dimensions must match">>)),
          value |-> <<>>]
    ELSE [raised |-> None, value |-> rows]

\* a matrix is the tuple of its rows; shape of a matrix with at least one row
NumRows(M) == Len(M)
NumCols(M) == IF M = <<>> THEN 0 ELSE Len(M[1])

TransposeNone(M) == M

\* M.T
Transpose(M) == [c \in 1..NumCols(M) |-> [r \in 1..NumRows(M) |-> M[r][c]]]

RECURSIVE SumTo(_, _)
SumTo(s, i) == IF i = 0 THEN 0 ELSE SumTo(s, i - 1) + s[i]

CumSumNoPrefix(dl) == [i \in 1..Len(dl) |-> SumTo(dl, i)]

\* the loop over dt_list followed by np.hstack([[0], tlist])
CumSum(dl) == <<0>> \o [i \in 1..Len(dl) |-> SumTo(dl, i)]

(***************************************************************************)
(* GateDecomposer.decompose                                                *)
(***************************************************************************)
KeepAccumulators == [dt_list |-> dt_list, coeff_list |-> coeff_list,
                     invoked |-> <<>>, raised |-> None]

\* self.dt_list = []; self.coeff_list = []
ResetAccumulators == [dt_list |-> <<>>, coeff_list |-> <<>>,
                      invoked |-> <<>>, raised |-> None]

\* the handler call self.gate_decomps[gate.name](gate)
InvokeHandler(gd, st, gate) ==
    [st EXCEPT !.dt_list = @ \o [i \in 1..Len(gd[gate]) |-> gd[gate][i].dt],
               !.coeff_list = @ \o [i \in 1..Len(gd[gate]) |-> gd[gate][i].row],
               !.invoked = Append(@, gate)]

LoopBodySkip(gd, st, gate) ==
    IF gate \notin DOMAIN gd THEN st ELSE InvokeHandler(gd, st, gate)

LoopBodyClear(gd, st, gate) ==
    IF gate \notin DOMAIN gd
    THEN [st EXCEPT !.raised = Some(ValueError(<<"Unsupported gate", gate>>)),
                    !.dt_list = <<>>, !.coeff_list = <<>>]
    ELSE InvokeHandler(gd, st, gate)

\* one iteration of "for gate in gates"
LoopBody(gd, st, gate) ==
    IF gate \notin DOMAIN gd
    THEN [st EXCEPT !.raised = Some(ValueError(<<"Unsupported gate", gate>>))]
    ELSE InvokeHandler(gd, st, gate)

\* the for loop: stops at the first raise
RECURSIVE Loop(_, _, _, _)
Loop(gd, gates, i, st) ==
    IF i > Len(gates) \/ st.raised # None
    THEN st
    ELSE Loop(gd, gates, i + 1, LoopBody(gd, st, gates[i]))

\* decompose(gates) run from the accumulators start: the accumulators it
\* leaves, what it raises and what it returns
decompose(gd, gates, start) ==
    LET st == Loop(gd, gates, 1, start)
        stacked == vstack(st.coeff_list)
    IN  IF st.raised # None
        THEN [dt_list |-> st.dt_list, coeff_list |-> st.coeff_list,
              invoked |-> st.invoked, raised |-> st.raised, ret |-> None]
        ELSE IF stacked.raised # None
        THEN [dt_list |-> st.dt_list, coeff_list |-> st.coeff_list,
              invoked |-> st.invoked, raised |-> stacked.raised, ret |-> None]
        ELSE [dt_list |-> st.dt_list, coeff_list |-> st.coeff_list,
              invoked |-> st.invoked, raised |-> None,
              ret |-> Some([tlist |-> CumSum(st.dt_list),
                            coeffs |-> Transpose(stacked.value)])]

Decompose(gates) ==
    LET r == decompose(gate_decomps, gates, ResetAccumulators)
    IN  /\ dt_list' = r.dt_list
        /\ coeff_list' = r.coeff_list
        /\ call' = [op |-> "decompose", gates |-> gates, invoked |-> r.invoked,
                    raised |-> r.raised, ret |-> r.ret,
                    after_failure |-> /\ call.op = "decompose"
                                      /\ call.raised # None
                                      /\ dt_list # <<>>]
        /\ UNCHANGED <<gate_decomps, num_ops, tlist, coeffs, _paras>>

(***************************************************************************)
(* ModelProcessor._para_list.  A parameter is a real number, an iterable   *)
(* of real numbers, or some other object.                                  *)
(***************************************************************************)
Real(p) == [kind |-> "real", v |-> p]
Iterable(s) == [kind |-> "iterable", v |-> s]
Other(o) == [kind |-> "other", v |-> o]

\* c * 2 * np.pi, counted in units of pi
TwoPi(c) == c * 2

_para_list_unscaled(para, N) ==
    IF para.kind = "real"
    THEN Some([i \in 1..N |-> para.v])
    ELSE IF para.kind = "iterable"
    THEN Some([i \in 1..Len(para.v) |-> para.v[i]])
    ELSE None

_para_list(para, N) ==
    IF para.kind = "real"
    THEN Some([i \in 1..N |-> TwoPi(para.v)])
    ELSE IF para.kind = "iterable"
    THEN Some([i \in 1..Len(para.v) |-> TwoPi(para.v[i])])
    ELSE None

ParaList(para, N) ==
    /\ call' = [op |-> "_para_list", para |-> [kind |-> para.kind, v |-> para.v],
                N |-> N, raised |-> None, ret |-> _para_list(para, N)]
    /\ UNCHANGED <<gate_decomps, num_ops, dt_list, coeff_list, tlist, coeffs, _paras>>

(***************************************************************************)
(* ModelProcessor.set_up_params and the params property                    *)
(***************************************************************************)
\* set_up_params(self) called with the keyword arguments kwargs: binding
\* the arguments to the signature comes before the body
set_up_params(kwargs) ==
    IF DOMAIN kwargs # {}
    THEN TypeError(<<"set_up_params() got an unexpected keyword argument">>)
    ELSE NotImplementedError(<<"Parameters should be defined in subclass.">>)

ParamNames == {"sx", "sz"}
ParamDicts == UNION {[D -> {1}] : D \in SUBSET ParamNames}

\* a direct call proc.set_up_params()
SetUpParams ==
    /\ call' = [op |-> "set_up_params", par |-> <<>>,
                raised |-> Some(set_up_params(<<>>)), ret |-> None]
    /\ UNCHANGED <<gate_decomps, num_ops, dt_list, coeff_list, tlist, coeffs, _paras>>

\* proc.params = par
ParamsSetter(par) ==
    /\ call' = [op |-> "params.setter", par |-> [k \in DOMAIN par |-> par[k]],
                raised |-> Some(set_up_params(par)), ret |-> None]
    /\ UNCHANGED <<gate_decomps, num_ops, dt_list, coeff_list, tlist, coeffs, _paras>>

\* proc.params
ParamsGetter ==
    /\ call' = [op |-> "params.getter", par |-> <<>>,
                raised |-> None, ret |-> Some(_paras)]
    /\ UNCHANGED <<gate_decomps, num_ops, dt_list, coeff_list, tlist, coeffs, _paras>>

(***************************************************************************)
(* ModelProcessor.run_state                                                *)
(***************************************************************************)
\* load_circuit(qc) of a device subclass: decompose the circuit's gates on
\* a new decomposer and store the timeline as the pulse schedule
load_circuit(qc, sched) ==
    LET r == decompose(gate_decomps, qc, ResetAccumulators)
    IN  IF r.raised # None
        THEN [tlist |-> sched.tlist, coeffs |-> sched.coeffs, raised |-> r.raised]
        ELSE [tlist |-> Some(r.ret[1].tlist), coeffs |-> Some(r.ret[1].coeffs),
              raised |-> None]

\* Processor.run_state: the evolution under the stored schedule, an opaque
\* result of the schedule and the arguments
super_run_state(sched, rho0, analytical) ==
    [solver |-> IF analytical THEN "analytical" ELSE "mesolve",
     tlist |-> sched.tlist, coeffs |-> sched.coeffs, rho0 |-> rho0]

LoadEvent(qc) == [ev |-> "load_circuit", qc |-> qc]
DispatchEvent(sched) == [ev |-> "dispatch", tlist |-> sched.tlist, coeffs |-> sched.coeffs]

run_state_dispatch_first(sched, rho0, analytical, qc) ==
    LET res == super_run_state(sched, rho0, analytical)
        loaded == IF qc # None
                  THEN load_circuit(qc[1], sched)
                  ELSE [tlist |-> sched.tlist, coeffs |-> sched.coeffs, raised |-> None]
    IN  [tlist |-> loaded.tlist, coeffs |-> loaded.coeffs,
         events |-> <<DispatchEvent(sched)>>
                    \o (IF qc # None THEN <<LoadEvent(qc[1])>> ELSE <<>>),
         raised |-> loaded.raised,
         ret |-> IF loaded.raised # None THEN None ELSE Some(res)]

\* run_state(rho0, analytical, qc) on the stored schedule sched: the schedule
\* it leaves, the collaborator calls it makes, what it raises or returns
run_state(sched, rho0, analytical, qc) ==
    LET loaded == IF qc # None
                  THEN load_circuit(qc[1], sched)
                  ELSE [tlist |-> sched.tlist, coeffs |-> sched.coeffs, raised |-> None]
        loads == IF qc # None THEN <<LoadEvent(qc[1])>> ELSE <<>>
    IN  IF loaded.raised # None
        THEN [tlist |-> loaded.tlist, coeffs |-> loaded.coeffs, events |-> loads,
              raised |-> loaded.raised, ret |-> None]
        ELSE [tlist |-> loaded.tlist, coeffs |-> loaded.coeffs,
              events |-> loads \o <<DispatchEvent(loaded)>>,
              raised |-> None,
              ret |-> Some(super_run_state(loaded, rho0, analytical))]

RunState(rho0, analytical, qc) ==
    LET r == run_state([tlist |-> tlist, coeffs |-> coeffs], rho0, analytical, qc)
    IN  /\ tlist' = r.tlist
        /\ coeffs' = r.coeffs
        /\ call' = [op |-> "run_state", rho0 |-> rho0, analytical |-> analytical,
                    qc |-> qc, events |-> r.events, raised |-> r.raised, ret |-> r.ret]
        /\ UNCHANGED <<gate_decomps, num_ops, dt_list, coeff_list, _paras>>

(***************************************************************************)
(* ModelProcessor.pulse_matrix                                             *)
(***************************************************************************)
Min(a, b) == IF a < b THEN a ELSE b
Max(a, b) == IF a > b THEN a ELSE b

\* int(np.ceil(x / y)) and int(np.floor(x / y)) for x >= 0, y > 0
CeilDiv(x, y) == (x + y - 1) \div y
FloorDiv(x, y) == x \div y

\* row[start:start+len] = np.ones(len) * val, with 0-based start: the slice
\* is clipped to the row, and a clipped slice does not fit the len values
SliceAssign(row, start, len, val) ==
    LET lo == Min(start, Len(row))
        hi == Min(start + len, Len(row))
    IN  IF hi - lo # len /\ len # 1
        THEN [raised |-> Some(ValueError(<<"could not broadcast input array">>)),
              value |-> row]
        ELSE [raised |-> None,
              value |-> [j \in 1..Len(row) |-> IF lo < j /\ j <= hi THEN val ELSE row[j]]]

t_idx_len_ceil(d) == CeilDiv(d, dt)

\* t_idx_len = int(np.floor(diff_tlist[n] / dt))
t_idx_len(d) == FloorDiv(d, dt)

\* the loop "for n in range(len(diff_tlist))" from segment n on
RECURSIVE RasterLoop(_, _, _, _, _)
RasterLoop(diff_tlist, H_u, n, t_start, u) ==
    IF n > Len(diff_tlist)
    THEN [raised |-> None, u |-> u]
    ELSE LET len == t_idx_len(diff_tlist[n])
             rows == [m \in 1..Len(u) |-> SliceAssign(u[m], t_start, len, H_u[n][m])]
         IN  IF \E m \in 1..Len(u) : rows[m].raised # None
             THEN [raised |-> rows[CHOOSE m \in 1..Len(u) : rows[m].raised # None].raised,
                   u |-> u]
             ELSE RasterLoop(diff_tlist, H_u, n + 1, t_start + len,
                             [m \in 1..Len(u) |-> rows[m].value])

\* pulse_matrix() on the stored schedule; t = np.linspace(0, t_tot, n_t) is
\* kept as its arguments
pulse_matrix(sched) ==
    IF sched.tlist = None \/ sched.coeffs = None
    THEN [raised |-> Some(TypeError(<<"'NoneType' object">>)), ret |-> None]
    ELSE LET tl == sched.tlist[1]
             H_u == Transpose(sched.coeffs[1])
             diff_tlist == [n \in 1..(Len(tl) - 1) |-> tl[n + 1] - tl[n]]
             t_tot == SumTo(diff_tlist, Len(diff_tlist))
             n_t == CeilDiv(t_tot, dt)
             n_ops == num_ops
             zeros == [m \in 1..n_ops |-> [j \in 1..n_t |-> 0]]
             r == RasterLoop(diff_tlist, H_u, 1, 0, zeros)
         IN  IF r.raised # None
             THEN [raised |-> r.raised, ret |-> None]
             ELSE [raised |-> None,
                   ret |-> Some([t |-> [start |-> 0, stop |-> t_tot, num |-> n_t],
                                 u |-> r.u])]

PulseMatrix ==
    LET r == pulse_matrix([tlist |-> tlist, coeffs |-> coeffs])
    IN  /\ call' = [op |-> "pulse_matrix", raised |-> r.raised, ret |-> r.ret]
        /\ UNCHANGED <<gate_decomps, num_ops, dt_list, coeff_list, tlist, coeffs, _paras>>

(***************************************************************************)
(* Construction: GateDecomposer(N, params, num_ops) with the registry its  *)
(* device subclass fills in, and ModelProcessor(N).                        *)
(***************************************************************************)
TypeOK ==
    /\ num_ops \in 1..(MaxOps + 1)
    /\ DOMAIN gate_decomps \subseteq HandlerNames
    /\ Len(dt_list) = Len(coeff_list)

\* a device subclass: the registry is filled in at construction
Init ==
    /\ num_ops \in 1..MaxOps
    /\ gate_decomps \in Registries(num_ops)
    /\ dt_list = <<>>
    /\ coeff_list = <<>>
    /\ tlist = None
    /\ coeffs = None
    /\ _paras = <<>>
    /\ call = [op |-> "init"]

\* a device whose registry holds every handler
InitProcessor ==
    /\ Init
    /\ gate_decomps = Handlers(num_ops)

\* the base classes themselves: GateDecomposer.__init__ leaves the registry empty
InitBase ==
    /\ num_ops \in 1..MaxOps
    /\ gate_decomps = <<>>
    /\ dt_list = <<>>
    /\ coeff_list = <<>>
    /\ tlist = None
    /\ coeffs = None
    /\ _paras = <<>>
    /\ call = [op |-> "init"]

Next == \E gates \in BoundedSeq(DecomposeNames, MaxGates) : Decompose(gates)

Rho0s == {"ket0"}
Circuits == {None} \cup {Some(qc) : qc \in BoundedSeq(CircuitNames, MaxCircuit)}

NextProcessor ==
    \/ \E rho0 \in Rho0s, analytical \in BOOLEAN, qc \in Circuits :
          RunState(rho0, analytical, qc)
    \/ PulseMatrix

ParaVals == {-1, 0, 3}

OtherObjects == {"None", "1j"}     \* neither a real number nor an iterable

NextParams ==
    \/ \E p \in ParaVals, N \in 1..MaxN : ParaList(Real(p), N)
    \/ \E s \in BoundedSeq(ParaVals, MaxN), N \in 1..MaxN : ParaList(Iterable(s), N)
    \/ \E o \in OtherObjects, N \in 1..MaxN : ParaList(Other(o), N)
    \/ SetUpParams
    \/ \E par \in ParamDicts : ParamsSetter(par)
    \/ ParamsGetter

Spec == Init /\ [][Next]_vars
SpecProcessor == InitProcessor /\ [][NextProcessor]_vars
SpecParams == InitBase /\ [][NextParams]_vars

(***************************************************************************)
(* Properties of GateDecomposer.decompose                                  *)
(***************************************************************************)
IsDecompose == call.op = "decompose"

Unsupported(gates) == {i \in 1..Len(gates) : gates[i] \notin DOMAIN gate_decomps}

FirstUnsupported(gates) ==
    CHOOSE i \in Unsupported(gates) : \A j \in Unsupported(gates) : i <= j

\* the entries the handlers of a gate sequence append, in gate order
RECURSIVE Fragments(_)
Fragments(gates) ==
    IF gates = <<>> THEN <<>>
    ELSE gate_decomps[Head(gates)] \o Fragments(Tail(gates))

\* C1: a decompose call whose sequence holds a gate that is not a key of
\* gate_decomps raises ValueError "Unsupported gate <name>" with the name of
\* the first such gate, and returns no timeline.
C1_UnsupportedGateRaises ==
    (IsDecompose /\ Unsupported(call.gates) # {}) =>
        /\ call.raised =
              Some(ValueError(<<"Unsupported gate", call.gates[FirstUnsupported(call.gates)]>>))
        /\ call.ret = None

C1_Witness ==
    /\ IsDecompose
    /\ call.raised # None
    /\ \E i, j \in Unsupported(call.gates) :
          /\ 1 < i /\ i < j
          /\ call.gates[i] # call.gates[j]
          /\ i = FirstUnsupported(call.gates)

FreshDecomposer == [dt_list |-> <<>>, coeff_list |-> <<>>, invoked |-> <<>>, raised |-> None]

\* C2: the timeline a successful decompose call returns is the one a freshly
\* constructed decomposer returns for the same gates, whatever calls came
\* before, failed ones included.
C2_EachCallStartsEmpty ==
    (IsDecompose /\ call.ret # None) =>
        call.ret = decompose(gate_decomps, call.gates, FreshDecomposer).ret

C2_Witness ==
    /\ IsDecompose
    /\ call.ret # None
    /\ call.after_failure

C5_EmptySequenceSucceeds ==
    (IsDecompose /\ call.gates = <<>>) =>
        /\ call.raised = None
        /\ call.ret # None
        /\ call.ret[1].tlist = <<0>>
        /\ \A c \in 1..Len(call.ret[1].coeffs) : call.ret[1].coeffs[c] = <<>>

\* C10: when decompose fails on an unsupported gate at position k, exactly
\* the handlers of the gates before k have been invoked, in order, and the
\* accumulators are left holding exactly their fragments.
C10_PartialAccumulatorsOnFailure ==
    (IsDecompose /\ Unsupported(call.gates) # {}) =>
        LET k == FirstUnsupported(call.gates)
            frags == Fragments(SubSeq(call.gates, 1, k - 1))
        IN  /\ call.raised # None
            /\ call.invoked = SubSeq(call.gates, 1, k - 1)
            /\ dt_list = [i \in 1..Len(frags) |-> frags[i].dt]
            /\ coeff_list = [i \in 1..Len(frags) |-> frags[i].row]

C10_Witness ==
    /\ IsDecompose
    /\ call.raised # None
    /\ Unsupported(call.gates) # {}
    /\ FirstUnsupported(call.gates) = 3
    /\ Len(dt_list) >= 2

(***************************************************************************)
(* Properties of ModelProcessor                                            *)
(***************************************************************************)
\* C6: _para_list changes nothing on the processor; for a real number p it
\* returns N entries all equal to p times 2*pi, and for an iterable of
\* length N it returns the entries times 2*pi in the same order and number
\* (values scaled by 2*pi count in units of pi, so p becomes 2 * p).
C6_ParaListScales ==
    [][call'.op = "_para_list" =>
          /\ UNCHANGED <<gate_decomps, num_ops, dt_list, coeff_list, tlist, coeffs, _paras>>
          /\ call'.raised = None
          /\ call'.para.kind = "real" =>
                /\ call'.ret # None
                /\ Len(call'.ret[1]) = call'.N
                /\ \A i \in 1..call'.N : call'.ret[1][i] = 2 * call'.para.v
          /\ (call'.para.kind = "iterable" /\ Len(call'.para.v) = call'.N) =>
                /\ call'.ret # None
                /\ Len(call'.ret[1]) = call'.N
                /\ \A i \in 1..call'.N : call'.ret[1][i] = 2 * call'.para.v[i]]_vars

C6_Witness ==
    /\ call.op = "_para_list"
    /\ call.para.kind = "iterable"
    /\ call.N = MaxN
    /\ Len(call.para.v) = call.N
    /\ call.para.v[1] # call.para.v[call.N]
    /\ call.para.v[1] # 0
    /\ call.ret # None

\* C7: a run_state call with a circuit calls load_circuit on it first and
\* dispatches the evolution after it, on the schedule of that circuit, which
\* is then the stored one; a call without a circuit makes no load, dispatches
\* on the stored schedule and leaves it as it was; what the call returns is
\* the result of the dispatch.
C7_LoadBeforeDispatch ==
    [][call'.op = "run_state" =>
          LET c == call'
              last == c.events[Len(c.events)]
          IN  /\ c.qc # None =>
                    /\ Len(c.events) >= 1
                    /\ c.events[1] = LoadEvent(c.qc[1])
                    /\ c.raised = None =>
                          LET t == decompose(gate_decomps, c.qc[1], FreshDecomposer).ret
                          IN  /\ t # None
                              /\ tlist' = Some(t[1].tlist)
                              /\ coeffs' = Some(t[1].coeffs)
                    /\ c.raised # None => Len(c.events) = 1
              /\ c.qc = None =>
                    /\ Len(c.events) = 1
                    /\ UNCHANGED <<tlist, coeffs>>
                    /\ c.raised = None
              /\ c.raised = None =>
                    /\ last = [ev |-> "dispatch", tlist |-> tlist', coeffs |-> coeffs']
                    /\ \A i \in 1..(Len(c.events) - 1) : c.events[i].ev # "dispatch"
                    /\ c.ret = Some(super_run_state([tlist |-> tlist', coeffs |-> coeffs'],
                                                    c.rho0, c.analytical))
              /\ c.raised # None => c.ret = None]_vars

C7_Witness ==
    /\ call.op = "run_state"
    /\ call.qc = None
    /\ call.ret # None
    /\ tlist # None
    /\ call.ret[1].tlist = tlist

\* C8: set_up_params of the base class, called directly or through an
\* assignment to params, always raises NotImplementedError, and the
\* dictionary the params getter returns stays the empty one.
C8_SetUpParamsNotImplemented ==
    /\ call.op \in {"set_up_params", "params.setter"} =>
          /\ call.raised # None
          /\ call.raised[1].type = "NotImplementedError"
    /\ call.op \in {"set_up_params", "params.setter", "params.getter"} =>
          _paras = <<>>
    /\ call.op = "params.getter" => call.ret = Some(<<>>)

\* the columns segment n fills: Width(d) is the w with w * dt <= d < (w + 1) * dt
Width(d) == CHOOSE w \in 0..d : w * dt <= d /\ d < (w + 1) * dt

RECURSIVE WidthsBefore(_, _)
WidthsBefore(tl, n) ==
    IF n <= 1 THEN 0 ELSE WidthsBefore(tl, n - 1) + Width(tl[n] - tl[n - 1])

\* C9: pulse_matrix rasters the stored timeline with step dt: the raster has
\* ceil(total / dt) columns; segment n fills floor(duration_n / dt) columns
\* right after those of segment n - 1, each control m holding coeffs[m][n]
\* there; the widths together never exceed the raster, no write fails, and
\* the columns after the last segment stay 0.  One segment of duration 1.0
\* with coefficient 5 gives exactly 100 entries equal to 5.
C9_PulseMatrixRaster ==
    (call.op = "pulse_matrix" /\ tlist # None) =>
        LET tl == tlist[1]
            co == coeffs[1]
            total == tl[Len(tl)] - tl[1]
            segs == Len(tl) - 1
            used == WidthsBefore(tl, segs + 1)
        IN  /\ call.raised = None
            /\ call.ret # None
            /\ LET u == call.ret[1].u
                   n_t == call.ret[1].t.num
               IN  /\ n_t * dt >= total /\ (n_t - 1) * dt < total
                   /\ Len(u) = num_ops
                   /\ \A m \in 1..num_ops : Len(u[m]) = n_t
                   /\ used <= n_t
                   /\ \A m \in 1..num_ops : \A n \in 1..segs :
                         \A j \in (WidthsBefore(tl, n) + 1)..WidthsBefore(tl, n + 1) :
                            u[m][j] = co[m][n]
                   /\ \A m \in 1..num_ops : \A j \in (used + 1)..n_t : u[m][j] = 0
                   /\ (tl = <<0, One>> /\ co[1] = <<5>>) =>
                         u[1] = [j \in 1..100 |-> 5]

C9_Witness ==
    /\ call.op = "pulse_matrix"
    /\ call.ret # None
    /\ tlist # None
    /\ Len(tlist[1]) >= 4
    /\ \E n \in 1..(Len(tlist[1]) - 1) : Width(tlist[1][n + 1] - tlist[1][n]) = 100
    /\ WidthsBefore(tlist[1], Len(tlist[1])) < call.ret[1].t.num
    /\ \E j \in 1..call.ret[1].t.num : call.ret[1].u[1][j] = 5

====
